---------------------------- MODULE Spec2Model ----------------------------
(***************************************************************************)
(* Model of pappl-retrofit/cups-side-back-channel.c: the framed side       *)
(* channel (_prSideChannelWrite, _prSideChannelRead,                       *)
(* _prSideChannelDoRequest, _prSideChannelSNMPGet, _prSideChannelSNMPWalk) *)
(* and the unframed back channel (_prBackChannelRead, _prBackChannelWrite).*)
(*                                                                         *)
(* One API call runs at a time (op), a program counter (pc) names the next *)
(* step of the running function, and every system call (poll/select,      *)
(* read, write, malloc) is one step whose outcome the environment chooses. *)
(* Bytes are 0..255; a C pointer argument is a record [null, mem].         *)
(***************************************************************************)
EXTENDS Integers, Sequences, FiniteSets, TLC

VARIABLES
  pc,       \* next step of the running function ("idle": no call running)
  op,       \* the API function called by the application
  timeout,  \* the call's timeout argument (sign only: -1, 0, 1)
  errno,    \* errno of the last system call ("none" when it did not fail:
            \* the code reads errno only after a call that failed)
  nerr,     \* system calls that failed during the running call
  nsys,     \* system calls that did not fail during the running call, per kind
  outq,     \* bytes accepted by write() on the side-channel descriptor
  inq,      \* bytes waiting to be read on the side-channel descriptor
  w,        \* arguments and locals of _prSideChannelWrite
  r,        \* arguments and locals of _prSideChannelRead
  rq,       \* arguments and locals of _prSideChannelDoRequest
  wk,       \* arguments and locals of _prSideChannelSNMPWalk
  bc,       \* arguments and locals of _prBackChannelRead/_prBackChannelWrite
  bcq,      \* bytes accepted by write() on the back-channel descriptor
  ret,      \* value returned to the application (read when pc = "done")
  hist,     \* the frames the backend has answered during the running walk
  gt        \* arguments and locals of _prSideChannelSNMPGet

vars == <<pc, op, timeout, errno, nerr, nsys, outq, inq, w, r, rq, wk, bc, bcq,
          ret, hist, gt>>

---------------------------------------------------------------------------
(* Bounds of the model *)

\* longest data argument / peer payload enumerated byte by byte
MaxData == 2
\* system-call failures (transient or hard) the environment injects per call
MaxErr == 1
\* get-next requests the backend answers during one walk
MaxRounds == 3

---------------------------------------------------------------------------
(* Program constants *)

CUPS_SC_MAX_DATA == 65535
CUPS_SC_MAX_BUFFER == 65540
\* sizeof(last_oid) in _prSideChannelSNMPWalk
LAST_OID_SIZE == 2048

\* pr_sc_command_t (cups-side-back-channel-private.h, not part of src/)
PR_SC_CMD_NONE == 0
PR_SC_CMD_SOFT_RESET == 1
PR_SC_CMD_SNMP_GET == 6
PR_SC_CMD_SNMP_GET_NEXT == 7
PR_SC_CMD_GET_CONNECTED == 8
PR_SC_CMD_MAX == 9

\* pr_sc_status_t (cups-side-back-channel-private.h, not part of src/)
PR_SC_STATUS_NONE == 0
PR_SC_STATUS_OK == 1
PR_SC_STATUS_IO_ERROR == 2
PR_SC_STATUS_TIMEOUT == 3
PR_SC_STATUS_NO_RESPONSE == 4
PR_SC_STATUS_BAD_MESSAGE == 5
PR_SC_STATUS_TOO_BIG == 6
PR_SC_STATUS_NOT_IMPLEMENTED == 7

Transient == {"EINTR", "EAGAIN"}
Errnos == Transient \cup {"EBADF"}

---------------------------------------------------------------------------
(* Pure helpers *)

Min(a, b) == IF a < b THEN a ELSE b

\* a pointer argument: null, or pointing at memory holding the bytes mem
Null == [null |-> TRUE, mem |-> <<>>]
Ptr(m) == [null |-> FALSE, mem |-> m]
\* an int * argument
NullInt == [null |-> TRUE, val |-> 0]
IntPtr(v) == [null |-> FALSE, val |-> v]

\* (char)v: the low eight bits of v
ToChar(v) == v % 256

\* the value of a plain char holding byte b; plain char is signed on some
\* builds and unsigned on others
CharVal(b, sgn) == IF sgn /\ b >= 128 THEN b - 256 ELSE b

\* memcpy(dst, src, n) on the initialised prefix of the destination
MemCpy(dst, src, n) == SubSeq(src, 1, n) \o SubSeq(dst, n + 1, Len(dst))

\* a frame with the low length byte first: not the frame the code builds
EncodeFrameLowFirst(command, status, data, datalen) ==
  << ToChar(command), ToChar(status),
     datalen % 256, ToChar(datalen \div 256) >>
  \o (IF datalen > 0 THEN SubSeq(data.mem, 1, datalen) ELSE <<>>)

\* the frame _prSideChannelWrite builds in its message buffer
EncodeFrame(command, status, data, datalen) ==
  << ToChar(command), ToChar(status),
     ToChar(datalen \div 256), datalen % 256 >>
  \o (IF datalen > 0 THEN SubSeq(data.mem, 1, datalen) ELSE <<>>)

\* a range check that accepts a null data pointer: not the check of the code
WriteArgsBadNullAllowed(command, data, datalen) ==
  \/ command < PR_SC_CMD_SOFT_RESET
  \/ command >= PR_SC_CMD_MAX
  \/ datalen < 0
  \/ datalen > CUPS_SC_MAX_DATA

\* the range check at the top of _prSideChannelWrite
WriteArgsBad(command, data, datalen) ==
  \/ command < PR_SC_CMD_SOFT_RESET
  \/ command >= PR_SC_CMD_MAX
  \/ datalen < 0
  \/ datalen > CUPS_SC_MAX_DATA
  \/ (datalen > 0 /\ data.null)

\* a command byte check without the upper limit: not the check of the code
CommandByteLow(b, sgn) == CharVal(b, sgn) < PR_SC_CMD_SOFT_RESET

\* the command byte check of _prSideChannelRead
CommandByteBad(b, sgn) ==
  \/ CharVal(b, sgn) < PR_SC_CMD_SOFT_RESET
  \/ CharVal(b, sgn) >= PR_SC_CMD_MAX

\* a declared length that is the low length byte alone: not the length the
\* code computes
TempLenLowByte(buffer) == buffer[4] % 256

\* the data length declared by a received header
TempLen(buffer) == (buffer[3] % 256) * 256 + (buffer[4] % 256)

\* a length check that does not look at the caller's capacity: not the
\* check of the code
LengthBadReceivedOnly(templen, data, datalen, bytes) ==
  \/ (templen > 0 /\ (data.null \/ datalen.null))
  \/ datalen.null
  \/ templen > bytes - 4

\* the length check of _prSideChannelRead: the response does not fit
LengthBad(templen, data, datalen, bytes) ==
  \/ (templen > 0 /\ (data.null \/ datalen.null))
  \/ datalen.null
  \/ templen > datalen.val
  \/ templen > bytes - 4

\* a rejection that sets *datalen to 0: not the rejection of the code
BadMessageNoLength(data, datalen) ==
  [ret |-> -1, command |-> PR_SC_CMD_NONE,
   status |-> PR_SC_STATUS_BAD_MESSAGE,
   data |-> data, datalen |-> IF datalen.null THEN datalen ELSE IntPtr(0)]

\* the rejection of a short message and of a bad command byte: command
\* NONE, status BAD_MESSAGE, return -1, data and *datalen not touched
BadMessage(data, datalen) ==
  [ret |-> -1, command |-> PR_SC_CMD_NONE,
   status |-> PR_SC_STATUS_BAD_MESSAGE,
   data |-> data, datalen |-> datalen]

\* what _prSideChannelRead makes of the bytes one read() delivered:
\* the return value and the four outputs
DecodeFrame(buffer, bytes, data, datalen, sgn) ==
  IF bytes < 4 \/ CommandByteBad(buffer[1], sgn)
  THEN BadMessage(data, datalen)
  ELSE IF LengthBad(TempLen(buffer), data, datalen, bytes)
  THEN [ret |-> 0, command |-> CharVal(buffer[1], sgn),
        status |-> PR_SC_STATUS_TOO_BIG,
        data |-> data, datalen |-> datalen]
  ELSE [ret |-> 0, command |-> CharVal(buffer[1], sgn),
        status |-> CharVal(buffer[2], sgn),
        data |-> IF data.null THEN data
                 ELSE Ptr(MemCpy(data.mem, SubSeq(buffer, 5, bytes),
                                 TempLen(buffer))),
        datalen |-> IntPtr(TempLen(buffer))]

---------------------------------------------------------------------------
(* Inputs the application and the environment choose from *)

Timeouts == {-1, 0, 1}
DataBytes == {0, 200}

\* all sequences over S of length at most n
SeqsUpTo(S, n) == UNION {[1..k -> S] : k \in 0..n}

\* n bytes of value b
Fill(n, b) == [i \in 1..n |-> b]

\* (data, datalen) arguments of _prSideChannelWrite: every short buffer with
\* its length, and a null buffer
ShortArgs ==
  {[data |-> Ptr(d), datalen |-> Len(d)] : d \in SeqsUpTo(DataBytes, MaxData)}
  \cup {[data |-> Null, datalen |-> 0]}

\* the longest legal message and another one longer than 255 bytes
LongArgs ==
  {[data |-> Ptr(Fill(n, 65)), datalen |-> n] : n \in {300, CUPS_SC_MAX_DATA}}

\* the illegal lengths and the missing buffer
BadArgs ==
  {[data |-> Null, datalen |-> 1],
   [data |-> Ptr(<<65>>), datalen |-> -1],
   [data |-> Ptr(Fill(CUPS_SC_MAX_DATA + 1, 65)),
    datalen |-> CUPS_SC_MAX_DATA + 1]}

\* the calls of _prSideChannelWrite: the first and the last valid command
\* with every status and short buffer, the long and the illegal buffers,
\* and the two commands next to the valid range
WriteCalls ==
  {[command |-> c, status |-> s, arg |-> a] :
     c \in {PR_SC_CMD_SOFT_RESET, PR_SC_CMD_GET_CONNECTED},
     s \in {PR_SC_STATUS_NONE, PR_SC_STATUS_OK, PR_SC_STATUS_NOT_IMPLEMENTED},
     a \in ShortArgs}
  \cup {[command |-> PR_SC_CMD_SOFT_RESET, status |-> PR_SC_STATUS_OK,
         arg |-> a] : a \in LongArgs \cup BadArgs}
  \cup {[command |-> c, status |-> PR_SC_STATUS_OK,
         arg |-> [data |-> Null, datalen |-> 0]] :
          c \in {PR_SC_CMD_NONE, PR_SC_CMD_MAX}}

\* (data, datalen) arguments of _prSideChannelRead: a buffer of c bytes
\* (marked 170) with *datalen = c, a fresh maximum-size buffer, null pointers
ReadArgs ==
  {[data |-> Ptr(Fill(c, 170)), datalen |-> IntPtr(c)] : c \in 0..MaxData}
  \cup {[data |-> Ptr(<<>>), datalen |-> IntPtr(CUPS_SC_MAX_BUFFER)],
        [data |-> Null, datalen |-> NullInt],
        [data |-> Null, datalen |-> IntPtr(1)],
        [data |-> Ptr(Fill(1, 170)), datalen |-> NullInt]}

\* the calls of _prSideChannelRead: every buffer with output pointers, and
\* one call without
ReadCalls ==
  {[outnull |-> FALSE, arg |-> a] : a \in ReadArgs}
  \cup {[outnull |-> TRUE,
         arg |-> [data |-> Ptr(Fill(1, 170)), datalen |-> IntPtr(1)]]}

\* the headers a peer may send: every command byte around and outside the
\* valid range, and status bytes including one above 127
PeerHeaders ==
  {<<c, PR_SC_STATUS_OK>> :
     c \in {PR_SC_CMD_NONE, PR_SC_CMD_SOFT_RESET, PR_SC_CMD_GET_CONNECTED,
            PR_SC_CMD_MAX, 200}}
  \cup {<<PR_SC_CMD_SOFT_RESET, s>> : s \in {PR_SC_STATUS_BAD_MESSAGE, 200}}

\* a whole frame a peer sends right after another one
SecondFrame == <<PR_SC_CMD_GET_CONNECTED, PR_SC_STATUS_OK, 0, 1, 66>>

\* two frames sent one after the other before the receiver reads: a frame
\* with no data or one byte of data, then SecondFrame
TwoFrames ==
  { <<PR_SC_CMD_SOFT_RESET, PR_SC_STATUS_OK, 0, Len(p)>> \o p \o SecondFrame :
      p \in SeqsUpTo({65}, 1) }

\* what a peer may put on the descriptor: frames declaring any short length
\* over any short payload (shorter, equal or longer than declared), a frame
\* declaring 256 bytes, two frames at once, and fragments shorter than a
\* header
PeerMsgs ==
  { h \o <<0, n>> \o p :
      h \in PeerHeaders, n \in 0..(MaxData + 1),
      p \in SeqsUpTo({65}, MaxData) }
  \cup TwoFrames
  \cup { <<PR_SC_CMD_SOFT_RESET, PR_SC_STATUS_OK, 1, 0>> }
  \cup { <<PR_SC_CMD_SOFT_RESET>>,
         <<PR_SC_CMD_SOFT_RESET, PR_SC_STATUS_OK, 0>> }

\* how many of n bytes one write() may accept: all of them, or one only
Accepts(n) == {k \in {1, n} : k >= 1 /\ k <= n}

---------------------------------------------------------------------------
(* Initial state *)

W0 == [command |-> 0, status |-> 0, data |-> Null, datalen |-> 0,
       nfds |-> 0, buffer |-> <<>>, bytes |-> 0, ret |-> 0]
R0 == [outnull |-> FALSE, data |-> Null, datalen |-> NullInt,
       nfds |-> 0, buffer |-> <<>>, bytes |-> 0,
       command |-> -1, status |-> -1, ret |-> 0]
RQ0 == [command |-> 0, data |-> Null, datalen |-> NullInt]
WK0 == [oid |-> Null, cb |-> FALSE, oidlen |-> 0, current_oid |-> <<>>,
        last_oid |-> <<>>, real_data |-> <<>>, real_datalen |-> 0,
        round |-> 0, cbs |-> <<>>]
BC0 == [buffer |-> <<>>, bytes |-> 0, status |-> 0, count |-> 0,
        total |-> 0, off |-> 0]
NSys0 == [poll |-> 0, read |-> 0, write |-> 0]
GT0 == [oid |-> Null, data |-> Null, datalen |-> NullInt,
        real_oidlen |-> 0, real_datalen |-> 0]

Init ==
  /\ pc = "idle" /\ op = "none" /\ timeout = 0
  /\ errno = "none" /\ nerr = 0 /\ nsys = NSys0
  /\ outq = <<>> /\ inq = <<>>
  /\ w = W0 /\ r = R0 /\ rq = RQ0 /\ wk = WK0 /\ bc = BC0 /\ bcq = <<>>
  /\ ret = 0 /\ hist = <<>> /\ gt = GT0

---------------------------------------------------------------------------
(* _prSideChannelWrite *)

\* where _prSideChannelWrite returns to
AfterWrite == CASE op = "scw" -> "done"
                [] op = "req" -> "req_wrote"
                [] op = "walk" -> "walk_wrote"
                [] op = "get" -> "get_wrote"

\* return (v) from _prSideChannelWrite, its locals being wl
WriteReturn(wl, v) ==
  /\ w' = [wl EXCEPT !.ret = v]
  /\ pc' = AfterWrite
  /\ ret' = IF op = "scw" THEN v ELSE ret

\* the results poll()/select() may give: ready, timed out (never with a
\* negative timeout, which waits for ever, nor when must: data is waiting),
\* or -1 with errno set
PollResults(t, must) ==
  {[n |-> 1, e |-> "none"]}
  \cup (IF t >= 0 /\ ~must THEN {[n |-> 0, e |-> "none"]} ELSE {})
  \cup (IF nerr < MaxErr THEN {[n |-> -1, e |-> x] : x \in Errnos} ELSE {})

\* the results read()/write() of up to n bytes may give, sizes being the
\* byte counts a successful call may return
IoResults(sizes) ==
  {[n |-> k, e |-> "none"] : k \in sizes}
  \cup (IF nerr < MaxErr THEN {[n |-> -1, e |-> x] : x \in Errnos} ELSE {})

\* a system call returned res: errno and the counts of calls
SysCall(kind, res) ==
  /\ nsys' = IF res.n < 0 THEN nsys ELSE [nsys EXCEPT ![kind] = @ + 1]
  /\ errno' = res.e
  /\ nerr' = IF res.n < 0 THEN nerr + 1 ELSE nerr

\* the application calls _prSideChannelWrite(command, status, data, datalen,
\* timeout)
CallSideChannelWrite ==
  /\ pc = "idle" /\ inq = <<>>
  /\ \E c \in WriteCalls, t \in Timeouts :
       /\ op' = "scw" /\ pc' = "scw_check" /\ timeout' = t
       /\ w' = [W0 EXCEPT !.command = c.command, !.status = c.status,
                          !.data = c.arg.data, !.datalen = c.arg.datalen]
  /\ UNCHANGED <<errno, nerr, nsys, outq, inq, r, rq, wk, bc, bcq, ret, hist,
                 gt>>

\* range check of the arguments
SideChannelWrite_check ==
  /\ pc = "scw_check"
  /\ IF WriteArgsBad(w.command, w.data, w.datalen)
     THEN WriteReturn(w, -1)
     ELSE pc' = "scw_poll" /\ UNCHANGED <<w, ret>>
  /\ UNCHANGED <<op, timeout, errno, nerr, nsys, outq, inq, r, rq, wk, bc,
                 bcq, hist, gt>>

\* a wait for write-readiness that goes on to write unless the wait failed:
\* not the wait of the code
WritePollTimeoutIgnored ==
  /\ pc = "scw_poll"
  /\ \E res \in PollResults(timeout, FALSE) :
       /\ SysCall("poll", res)
       /\ IF res.n < 0
          THEN WriteReturn([w EXCEPT !.nfds = res.n], -1)
          ELSE /\ w' = [w EXCEPT !.nfds = res.n]
               /\ pc' = "scw_build" /\ ret' = ret
  /\ UNCHANGED <<op, timeout, outq, inq, r, rq, wk, bc, bcq, hist, gt>>

\* poll()/select() for write-readiness, called once: any result below 1
\* (timeout, interruption, error) returns -1
SideChannelWrite_poll ==
  /\ pc = "scw_poll"
  /\ \E res \in PollResults(timeout, FALSE) :
       /\ SysCall("poll", res)
       /\ IF res.n < 1
          THEN WriteReturn([w EXCEPT !.nfds = res.n], -1)
          ELSE /\ w' = [w EXCEPT !.nfds = res.n]
               /\ pc' = "scw_build" /\ ret' = ret
  /\ UNCHANGED <<op, timeout, outq, inq, r, rq, wk, bc, bcq, hist, gt>>

\* malloc(datalen + 4), which may fail, then the frame is built in buffer
SideChannelWrite_build ==
  /\ pc = "scw_build"
  /\ \E ok \in BOOLEAN :
       IF ok
       THEN /\ w' = [w EXCEPT
                 !.buffer = EncodeFrame(w.command, w.status, w.data, w.datalen),
                 !.bytes = 4 + (IF w.datalen > 0 THEN w.datalen ELSE 0)]
            /\ pc' = "scw_write" /\ ret' = ret
       ELSE WriteReturn(w, -1)
  /\ UNCHANGED <<op, timeout, errno, nerr, nsys, outq, inq, r, rq, wk, bc,
                 bcq, hist, gt>>

\* one write() of the whole frame: repeated while it fails with EINTR or
\* EAGAIN, -1 on another error, and 0 as soon as a write() does not fail,
\* however many bytes it accepted
SideChannelWrite_write ==
  /\ pc = "scw_write"
  /\ \E res \in IoResults(Accepts(w.bytes)) :
       /\ SysCall("write", res)
       /\ IF res.n < 0
          THEN /\ outq' = outq
               /\ IF res.e \in Transient
                  THEN UNCHANGED <<w, pc, ret>>
                  ELSE WriteReturn(w, -1)
          ELSE /\ outq' = outq \o SubSeq(w.buffer, 1, res.n)
               /\ WriteReturn(w, 0)
  /\ UNCHANGED <<op, timeout, inq, r, rq, wk, bc, bcq, hist, gt>>

---------------------------------------------------------------------------
(* _prSideChannelRead *)

\* where _prSideChannelRead returns to
AfterRead == CASE op = "scr" -> "done"
               [] op = "req" -> "req_read"
               [] op = "walk" -> "walk_read"
               [] op = "get" -> "get_read"

\* return (v) from _prSideChannelRead, its locals and outputs being rl
ReadReturn(rl, v) ==
  /\ r' = [rl EXCEPT !.ret = v]
  /\ pc' = AfterRead
  /\ ret' = IF op = "scr" THEN v ELSE ret

\* the application calls _prSideChannelRead(&command, &status, data,
\* &datalen, timeout); outnull: the command or status pointer is null
CallSideChannelRead ==
  /\ pc = "idle"
  /\ \E c \in ReadCalls, t \in Timeouts :
       /\ op' = "scr" /\ pc' = "scr_check" /\ timeout' = t
       /\ r' = [R0 EXCEPT !.outnull = c.outnull, !.data = c.arg.data,
                          !.datalen = c.arg.datalen]
  /\ UNCHANGED <<errno, nerr, nsys, outq, inq, w, rq, wk, bc, bcq, ret, hist,
                 gt>>

\* range check of the output pointers
SideChannelRead_check ==
  /\ pc = "scr_check"
  /\ IF r.outnull
     THEN ReadReturn(r, -1)
     ELSE pc' = "scr_poll" /\ UNCHANGED <<r, ret>>
  /\ UNCHANGED <<op, timeout, errno, nerr, nsys, outq, inq, w, rq, wk, bc,
                 bcq, hist, gt>>

\* poll()/select() for read-readiness, repeated while it fails with EINTR
\* or EAGAIN; a result below 1 sets the outputs and returns -1
SideChannelRead_poll ==
  /\ pc = "scr_poll"
  /\ \E res \in PollResults(timeout, inq # <<>>) :
       /\ SysCall("poll", res)
       /\ IF res.n < 0 /\ res.e \in Transient
          THEN /\ r' = [r EXCEPT !.nfds = res.n]
               /\ UNCHANGED <<pc, ret>>
          ELSE IF res.n < 1
          THEN ReadReturn([r EXCEPT !.nfds = res.n,
                             !.command = PR_SC_CMD_NONE,
                             !.status = IF res.n = 0
                                        THEN PR_SC_STATUS_TIMEOUT
                                        ELSE PR_SC_STATUS_IO_ERROR], -1)
          ELSE /\ r' = [r EXCEPT !.nfds = res.n]
               /\ pc' = "scr_malloc" /\ ret' = ret
  /\ UNCHANGED <<op, timeout, outq, inq, w, rq, wk, bc, bcq, hist, gt>>

\* malloc(_CUPS_SC_MAX_BUFFER), which may fail
SideChannelRead_malloc ==
  /\ pc = "scr_malloc"
  /\ \E ok \in BOOLEAN :
       IF ok
       THEN pc' = "scr_read" /\ UNCHANGED <<r, ret>>
       ELSE ReadReturn([r EXCEPT !.command = PR_SC_CMD_NONE,
                                 !.status = PR_SC_STATUS_TOO_BIG], -1)
  /\ UNCHANGED <<op, timeout, errno, nerr, nsys, outq, inq, w, rq, wk, bc,
                 bcq, hist, gt>>

\* a read() that asks for the four header bytes only: not the read of the
\* code
ReadSizeHeader(waiting) == Min(waiting, 4)

\* what read(_PR_SC_FD, buffer, _CUPS_SC_MAX_BUFFER) returns when so many
\* bytes are waiting
ReadSize(waiting) == Min(waiting, CUPS_SC_MAX_BUFFER)

\* read() of up to _CUPS_SC_MAX_BUFFER bytes, repeated while it fails with
\* EINTR or EAGAIN: it takes everything that is waiting, up to that many
SideChannelRead_read ==
  /\ pc = "scr_read"
  /\ \E res \in IoResults({ReadSize(Len(inq))}) :
       /\ SysCall("read", res)
       /\ IF res.n < 0
          THEN /\ inq' = inq
               /\ IF res.e \in Transient
                  THEN UNCHANGED <<r, pc, ret>>
                  ELSE ReadReturn([r EXCEPT !.bytes = res.n,
                                    !.command = PR_SC_CMD_NONE,
                                    !.status = PR_SC_STATUS_IO_ERROR], -1)
          ELSE /\ inq' = SubSeq(inq, res.n + 1, Len(inq))
               /\ r' = [r EXCEPT !.buffer = SubSeq(inq, 1, res.n),
                                 !.bytes = res.n]
               /\ pc' = "scr_decode" /\ ret' = ret
  /\ UNCHANGED <<op, timeout, outq, w, rq, wk, bc, bcq, hist, gt>>

\* the received bytes are checked and copied out
SideChannelRead_decode ==
  /\ pc = "scr_decode"
  /\ \E sgn \in BOOLEAN :
       LET d == DecodeFrame(r.buffer, r.bytes, r.data, r.datalen, sgn)
       IN  ReadReturn([r EXCEPT !.command = d.command, !.status = d.status,
                                !.data = d.data, !.datalen = d.datalen],
                      d.ret)
  /\ UNCHANGED <<op, timeout, errno, nerr, nsys, outq, inq, w, rq, wk, bc,
                 bcq, hist, gt>>

---------------------------------------------------------------------------
(* _prSideChannelDoRequest *)

\* the calls of _prSideChannelDoRequest: two valid commands and one that
\* _prSideChannelWrite rejects, with every response buffer
RequestCalls ==
  {[command |-> c, arg |-> a] :
     c \in {PR_SC_CMD_SOFT_RESET, PR_SC_CMD_GET_CONNECTED}, a \in ReadArgs}
  \cup {[command |-> PR_SC_CMD_NONE,
         arg |-> [data |-> Ptr(Fill(1, 170)), datalen |-> IntPtr(1)]]}

\* the application calls _prSideChannelDoRequest(command, data, &datalen,
\* timeout), which calls _prSideChannelWrite(command, NONE, NULL, 0, timeout)
CallSideChannelDoRequest ==
  /\ pc = "idle" /\ inq = <<>>
  /\ \E c \in RequestCalls, t \in Timeouts :
       /\ op' = "req" /\ timeout' = t
       /\ rq' = [command |-> c.command, data |-> c.arg.data,
                 datalen |-> c.arg.datalen]
       /\ w' = [W0 EXCEPT !.command = c.command,
                          !.status = PR_SC_STATUS_NONE]
       /\ pc' = "scw_check"
  /\ UNCHANGED <<errno, nerr, nsys, outq, inq, r, wk, bc, bcq, ret, hist, gt>>

\* a request that goes on to read whatever _prSideChannelWrite returned:
\* not the request of the code
DoRequestReadAnyway ==
  /\ pc = "req_wrote"
  /\ r' = [R0 EXCEPT !.data = rq.data, !.datalen = rq.datalen]
  /\ pc' = "scr_check" /\ ret' = ret
  /\ UNCHANGED <<op, timeout, errno, nerr, nsys, outq, inq, w, rq, wk, bc,
                 bcq, hist, gt>>

\* _prSideChannelWrite has returned: TIMEOUT if it failed, otherwise
\* _prSideChannelRead(&rcommand, &status, data, datalen, timeout) is called
SideChannelDoRequest_wrote ==
  /\ pc = "req_wrote"
  /\ IF w.ret # 0
     THEN /\ pc' = "done" /\ ret' = PR_SC_STATUS_TIMEOUT /\ r' = r
     ELSE /\ r' = [R0 EXCEPT !.data = rq.data, !.datalen = rq.datalen]
          /\ pc' = "scr_check" /\ ret' = ret
  /\ UNCHANGED <<op, timeout, errno, nerr, nsys, outq, inq, w, rq, wk, bc,
                 bcq, hist, gt>>

\* _prSideChannelRead has returned: TIMEOUT if it failed, BAD_MESSAGE if the
\* response command is not the request command, otherwise the status read
SideChannelDoRequest_read ==
  /\ pc = "req_read"
  /\ pc' = "done"
  /\ ret' = IF r.ret # 0 THEN PR_SC_STATUS_TIMEOUT
            ELSE IF r.command # rq.command THEN PR_SC_STATUS_BAD_MESSAGE
            ELSE r.status
  /\ UNCHANGED <<op, timeout, errno, nerr, nsys, outq, inq, w, r, rq, wk, bc,
                 bcq, hist, gt>>

---------------------------------------------------------------------------
(* _prBackChannelRead and _prBackChannelWrite *)

\* the select() loop of both functions: select() is called again while it
\* fails with an errno other than EINTR and EAGAIN; the loop is left when
\* select() does not fail, and when it fails with EINTR or EAGAIN
SelectAgain(status, e) == status < 0 /\ e \notin Transient

\* the application calls _prBackChannelRead(buffer, bytes, timeout)
CallBackChannelRead ==
  /\ pc = "idle" /\ inq = <<>>
  /\ \E n \in 0..MaxData, t \in Timeouts :
       /\ op' = "bcr" /\ pc' = "bcr_select" /\ timeout' = t
       /\ bc' = [BC0 EXCEPT !.buffer = Fill(n, 170), !.bytes = n]
  /\ UNCHANGED <<errno, nerr, nsys, outq, inq, w, r, rq, wk, bcq, ret, hist,
                 gt>>

\* one select() of the wait loop; out of the loop, status <= 0 returns -1
BackChannelRead_select ==
  /\ pc = "bcr_select"
  /\ \E res \in PollResults(timeout, FALSE) :
       /\ SysCall("poll", res)
       /\ bc' = [bc EXCEPT !.status = res.n]
       /\ IF SelectAgain(res.n, res.e)
          THEN UNCHANGED <<pc, ret>>
          ELSE IF res.n <= 0
          THEN pc' = "done" /\ ret' = -1
          ELSE pc' = "bcr_read" /\ ret' = ret
  /\ UNCHANGED <<op, timeout, outq, inq, w, r, rq, wk, bcq, hist, gt>>

\* return (read(3, buffer, bytes)): the result of one read(), whatever it is
BackChannelRead_read ==
  /\ pc = "bcr_read"
  /\ \E res \in IoResults(0..bc.bytes) :
       /\ SysCall("read", res)
       /\ bc' = [bc EXCEPT !.count = res.n,
                   !.buffer = IF res.n > 0
                              THEN MemCpy(bc.buffer, Fill(res.n, 66), res.n)
                              ELSE bc.buffer]
       /\ pc' = "done" /\ ret' = res.n
  /\ UNCHANGED <<op, timeout, outq, inq, w, r, rq, wk, bcq, hist, gt>>

\* a loop that ends after the first write() that did not fail: not the loop
\* of the code
WriteLoopOnce(total, bytes) ==
  IF total < bytes /\ total = 0 THEN "bcw_select" ELSE "done"

\* the loop test of _prBackChannelWrite: next step with total bytes written
WriteLoop(total, bytes) == IF total < bytes THEN "bcw_select" ELSE "done"

\* the application calls _prBackChannelWrite(buffer, bytes, timeout)
CallBackChannelWrite ==
  /\ pc = "idle" /\ inq = <<>>
  /\ \E d \in SeqsUpTo(DataBytes, MaxData), t \in Timeouts :
       /\ op' = "bcw" /\ timeout' = t
       /\ bc' = [BC0 EXCEPT !.buffer = d, !.bytes = Len(d)]
       /\ pc' = WriteLoop(0, Len(d))
       /\ ret' = Len(d)
  /\ UNCHANGED <<errno, nerr, nsys, outq, inq, w, r, rq, wk, bcq, hist, gt>>

\* one select() of the wait loop; out of the loop, status <= 0 returns -1
BackChannelWrite_select ==
  /\ pc = "bcw_select"
  /\ \E res \in PollResults(timeout, FALSE) :
       /\ SysCall("poll", res)
       /\ bc' = [bc EXCEPT !.status = res.n]
       /\ IF SelectAgain(res.n, res.e)
          THEN UNCHANGED <<pc, ret>>
          ELSE IF res.n <= 0
          THEN pc' = "done" /\ ret' = -1
          ELSE pc' = "bcw_write" /\ ret' = ret
  /\ UNCHANGED <<op, timeout, outq, inq, w, r, rq, wk, bcq, hist, gt>>

\* write(3, buffer, bytes - total): a failure with EINTR or EAGAIN goes
\* round the loop, another failure returns -1, a success advances buffer
\* and total by the bytes accepted
BackChannelWrite_write ==
  /\ pc = "bcw_write"
  /\ \E res \in IoResults(Accepts(bc.bytes - bc.total)) :
       /\ SysCall("write", res)
       /\ IF res.n < 0
          THEN /\ bc' = [bc EXCEPT !.count = res.n]
               /\ bcq' = bcq
               /\ IF res.e \in Transient
                  THEN pc' = "bcw_select" /\ ret' = ret
                  ELSE pc' = "done" /\ ret' = -1
          ELSE /\ bcq' = bcq \o SubSeq(bc.buffer, bc.off + 1, bc.off + res.n)
               /\ bc' = [bc EXCEPT !.count = res.n, !.off = @ + res.n,
                                   !.total = @ + res.n]
               /\ pc' = WriteLoop(bc.total + res.n, bc.bytes)
               /\ ret' = bc.bytes
  /\ UNCHANGED <<op, timeout, outq, inq, w, r, rq, wk, hist, gt>>

---------------------------------------------------------------------------
(* C strings *)

\* m holds a NUL
HasNul(m) == \E i \in 1..Len(m) : m[i] = 0

\* strlen(m): the offset of the first NUL of m
StrLen(m) ==
  LET nuls == {i \in 1..Len(m) : m[i] = 0}
  IN  (CHOOSE i \in nuls : \A j \in nuls : i <= j) - 1

\* the string at the start of m, without its NUL
CStr(m) == SubSeq(m, 1, StrLen(m))

\* what the string functions see at a buffer whose initialised bytes are m:
\* m itself when it holds a NUL, otherwise m followed by the indeterminate
\* bytes g of the allocation, up to the first NUL among them
Seen(m, g) == IF HasNul(m) THEN m ELSE m \o g \o <<0>>

\* m[i] = v, for a 0-based offset i at most Len(m)
Store(m, i, v) == IF i < Len(m) THEN [m EXCEPT ![i + 1] = v]
                  ELSE Append(m, v)

\* strlcpy(dst, str, size): str cut to size - 1 characters
StrLCpy(str, size) == SubSeq(str, 1, Min(Len(str), size - 1))

\* !strncmp(str, oid, oidlen) alone, without the test of the character
\* after the prefix: not the test of the code
PrefixOnly(str, oid) ==
  /\ Len(str) >= Len(oid)
  /\ SubSeq(str, 1, Len(oid)) = oid

\* !strncmp(str, oid, oidlen) && str[oidlen] == '.'
InSubtree(str, oid) ==
  /\ Len(str) > Len(oid)
  /\ SubSeq(str, 1, Len(oid)) = oid
  /\ str[Len(oid) + 1] = 46

\* the test that ends the walk: the returned OID is outside the subtree of
\* oid, or it is the string kept in last_oid
WalkDone(str, oid, last_oid) == ~InSubtree(str, oid) \/ str = last_oid

---------------------------------------------------------------------------
(* _prSideChannelSNMPWalk *)

\* the OIDs of the scenario: the root ".1", ".1.1" and ".1.2" below it,
\* ".2" and ".11" outside it, and an OID below it of LAST_OID_SIZE characters
OidRoot == <<46, 49>>
OidA == <<46, 49, 46, 49>>
OidB == <<46, 49, 46, 50>>
OidOut == <<46, 50>>
OidSibling == <<46, 49, 49>>
OidLong == <<46, 49, 46>> \o Fill(LAST_OID_SIZE - 3, 49)

\* a frame as a peer sends it
Frame(c, s, p) == <<c, s, Len(p) \div 256, Len(p) % 256>> \o p

\* the payloads of get-next responses: "oid\0value" for each OID, an OID
\* without its NUL, no payload
WalkPayloads ==
  {o \o <<0, 65>> : o \in {OidA, OidB, OidOut, OidSibling, OidLong}}
  \cup {OidA, <<>>}

\* the frames a backend may answer to a get-next request
WalkFrames ==
  {Frame(PR_SC_CMD_SNMP_GET_NEXT, PR_SC_STATUS_OK, p) : p \in WalkPayloads}
  \cup {Frame(PR_SC_CMD_SNMP_GET_NEXT, PR_SC_STATUS_NOT_IMPLEMENTED,
              OidA \o <<0, 65>>),
        Frame(PR_SC_CMD_SNMP_GET_NEXT, PR_SC_STATUS_NO_RESPONSE, <<>>),
        Frame(PR_SC_CMD_SNMP_GET, PR_SC_STATUS_OK, OidA \o <<0, 65>>),
        Frame(PR_SC_CMD_SNMP_GET, PR_SC_STATUS_NO_RESPONSE, <<>>),
        Frame(PR_SC_CMD_NONE, PR_SC_STATUS_OK, OidA \o <<0, 65>>),
        <<PR_SC_CMD_SNMP_GET_NEXT, PR_SC_STATUS_OK, 0, 9>> \o OidA,
        <<PR_SC_CMD_SNMP_GET_NEXT, PR_SC_STATUS_OK>>}

\* what the backend may answer next: a backend that has returned the long
\* OID goes on with it, with the OID one character shorter, or leaves the
\* subtree, and another backend does not return the long OID after a short
\* one
WalkReplies ==
  IF wk.cbs = <<>> THEN WalkFrames
  ELSE IF wk.cbs[Len(wk.cbs)].oid = OidLong
  THEN {Frame(PR_SC_CMD_SNMP_GET_NEXT, PR_SC_STATUS_OK, o \o <<0, 65>>) :
          o \in {OidLong, SubSeq(OidLong, 1, LAST_OID_SIZE - 1), OidOut}}
  ELSE WalkFrames \ {Frame(PR_SC_CMD_SNMP_GET_NEXT, PR_SC_STATUS_OK,
                           OidLong \o <<0, 65>>)}

\* indeterminate bytes that may follow the initialised part of real_data
Garbage == {<<>>, <<46, 50>>}

\* sizeof(real_data), the size of a pointer
PointerSizes == {4, 8}

\* the calls of _prSideChannelSNMPWalk
WalkCalls ==
  {[oid |-> Ptr(OidRoot), cb |-> TRUE],
   [oid |-> Ptr(<<>>), cb |-> TRUE],
   [oid |-> Null, cb |-> TRUE],
   [oid |-> Ptr(OidRoot), cb |-> FALSE]}

\* the application calls _prSideChannelSNMPWalk(oid, timeout, cb, context)
CallSideChannelSNMPWalk ==
  /\ pc = "idle" /\ inq = <<>>
  /\ \E c \in WalkCalls, t \in {-1, 0} :
       /\ op' = "walk" /\ pc' = "walk_check" /\ timeout' = t
       /\ wk' = [WK0 EXCEPT !.oid = c.oid, !.cb = c.cb]
  /\ UNCHANGED <<errno, nerr, nsys, outq, inq, w, r, rq, bc, bcq, ret, hist,
                 gt>>

\* range check, malloc(_CUPS_SC_MAX_BUFFER) which may fail, and the
\* initialisation of the loop
SideChannelSNMPWalk_check ==
  /\ pc = "walk_check"
  /\ IF wk.oid.null \/ wk.oid.mem = <<>> \/ ~wk.cb
     THEN pc' = "done" /\ ret' = PR_SC_STATUS_BAD_MESSAGE /\ wk' = wk
     ELSE \E ok \in BOOLEAN :
            IF ok
            THEN /\ wk' = [wk EXCEPT !.current_oid = wk.oid.mem,
                                     !.oidlen = Len(wk.oid.mem),
                                     !.last_oid = <<>>]
                 /\ pc' = "walk_send" /\ ret' = ret
            ELSE pc' = "done" /\ ret' = PR_SC_STATUS_TOO_BIG /\ wk' = wk
  /\ UNCHANGED <<op, timeout, errno, nerr, nsys, outq, inq, w, r, rq, bc, bcq,
                 hist, gt>>

\* top of the loop: _prSideChannelWrite(SNMP_GET_NEXT, NONE, current_oid,
\* strlen(current_oid) + 1, timeout) is called
SideChannelSNMPWalk_send ==
  /\ pc = "walk_send"
  /\ w' = [W0 EXCEPT !.command = PR_SC_CMD_SNMP_GET_NEXT,
                     !.status = PR_SC_STATUS_NONE,
                     !.data = Ptr(wk.current_oid \o <<0>>),
                     !.datalen = Len(wk.current_oid) + 1]
  /\ wk' = [wk EXCEPT !.round = @ + 1]
  /\ pc' = "scw_check"
  /\ UNCHANGED <<op, timeout, errno, nerr, nsys, outq, inq, r, rq, bc, bcq,
                 ret, hist, gt>>

\* _prSideChannelWrite has returned: TIMEOUT if it failed, otherwise
\* _prSideChannelRead(&rcommand, &status, real_data, &real_datalen, timeout)
\* is called with real_datalen = _CUPS_SC_MAX_BUFFER
SideChannelSNMPWalk_wrote ==
  /\ pc = "walk_wrote"
  /\ IF w.ret # 0
     THEN /\ pc' = "done" /\ ret' = PR_SC_STATUS_TIMEOUT /\ r' = r
     ELSE /\ r' = [R0 EXCEPT !.data = Ptr(wk.real_data),
                             !.datalen = IntPtr(CUPS_SC_MAX_BUFFER)]
          /\ pc' = "scr_check" /\ ret' = ret
  /\ UNCHANGED <<op, timeout, errno, nerr, nsys, outq, inq, w, rq, wk, bc,
                 bcq, hist, gt>>

\* the callback call and the update that follow a response that goes on:
\* the walk's locals after them, sz being sizeof(real_data) and seen what
\* the string functions see at real_data
WalkStep(wl, seen, sz) ==
  LET term == wl.real_datalen < sz
      mem == IF term THEN Store(seen, wl.real_datalen, 0) ELSE seen
      real_oidlen == StrLen(mem) + 1
      vlen == wl.real_datalen - real_oidlen
  IN  [wl EXCEPT
         !.real_data = IF term THEN Store(wl.real_data, wl.real_datalen, 0)
                       ELSE wl.real_data,
         !.real_datalen = vlen,
         !.cbs = Append(@, [oid |-> CStr(mem),
                            data |-> SubSeq(mem, real_oidlen + 1,
                                            real_oidlen + vlen),
                            datalen |-> vlen]),
         !.current_oid = CStr(mem),
         !.last_oid = StrLCpy(CStr(mem), LAST_OID_SIZE)]

\* a round status that does not look at the response command: not the
\* status of the code
RoundStatusAnyCommand(rret, rcommand, rstatus) ==
  IF rret # 0 THEN PR_SC_STATUS_TIMEOUT ELSE rstatus

\* the status of a round once _prSideChannelRead has returned rret with
\* the outputs rcommand and rstatus: TIMEOUT if it failed, BAD_MESSAGE if
\* the response command is not SNMP_GET_NEXT, otherwise the status read
RoundStatus(rret, rcommand, rstatus) ==
  IF rret # 0 THEN PR_SC_STATUS_TIMEOUT
  ELSE IF rcommand # PR_SC_CMD_SNMP_GET_NEXT THEN PR_SC_STATUS_BAD_MESSAGE
  ELSE rstatus

\* _prSideChannelRead has returned: a round whose status is not OK ends the
\* walk with that status; with status OK, OK when the walk is done,
\* otherwise the callback is called and the loop goes round
SideChannelSNMPWalk_read ==
  /\ pc = "walk_read"
  /\ LET wl == [wk EXCEPT !.real_data = r.data.mem,
                          !.real_datalen = r.datalen.val]
         st == RoundStatus(r.ret, r.command, r.status)
     IN  IF st # PR_SC_STATUS_OK
         THEN pc' = "done" /\ ret' = st /\ wk' = wl
         ELSE \E g \in (IF HasNul(wl.real_data) THEN {<<>>} ELSE Garbage),
                 sz \in PointerSizes :
                IF WalkDone(CStr(Seen(wl.real_data, g)), wl.oid.mem,
                            wl.last_oid)
                THEN pc' = "done" /\ ret' = PR_SC_STATUS_OK /\ wk' = wl
                ELSE /\ wk' = WalkStep(wl, Seen(wl.real_data, g), sz)
                     /\ pc' = "walk_send" /\ ret' = ret
  /\ UNCHANGED <<op, timeout, errno, nerr, nsys, outq, inq, w, r, rq, bc, bcq,
                 hist, gt>>

---------------------------------------------------------------------------
(* _prSideChannelSNMPGet *)

\* the value bytes of the responses: 'A', 'B', ...
ValueBytes(v) == [i \in 1..v |-> 64 + i]

\* the capacities *datalen of the caller's buffer that pass the range check
GetCapacities == 2..(MaxData + 1)

\* the frames a backend may answer to a get request: "oid\0value" with a
\* value of every length up to the largest capacity, an OID without its
\* NUL, no payload, a status that is not OK, another command, and a frame
\* cut short
GetFrames ==
  {Frame(PR_SC_CMD_SNMP_GET, PR_SC_STATUS_OK, OidA \o <<0>> \o ValueBytes(v)) :
     v \in 0..(MaxData + 1)}
  \cup {Frame(PR_SC_CMD_SNMP_GET, PR_SC_STATUS_OK, OidA),
        Frame(PR_SC_CMD_SNMP_GET, PR_SC_STATUS_OK, <<>>),
        Frame(PR_SC_CMD_SNMP_GET, PR_SC_STATUS_NO_RESPONSE, <<>>),
        Frame(PR_SC_CMD_SNMP_GET_NEXT, PR_SC_STATUS_OK,
              OidA \o <<0>> \o ValueBytes(1)),
        <<PR_SC_CMD_SNMP_GET, PR_SC_STATUS_OK>>}

\* the calls of _prSideChannelSNMPGet: an OID with every capacity, and the
\* calls the range check rejects
GetCalls ==
  {[oid |-> Ptr(OidA), data |-> Ptr(Fill(c, 170)), datalen |-> IntPtr(c)] :
     c \in GetCapacities}
  \cup {[oid |-> Null, data |-> Ptr(Fill(2, 170)), datalen |-> IntPtr(2)],
        [oid |-> Ptr(<<>>), data |-> Ptr(Fill(2, 170)), datalen |-> IntPtr(2)],
        [oid |-> Ptr(OidA), data |-> Null, datalen |-> IntPtr(2)],
        [oid |-> Ptr(OidA), data |-> Ptr(Fill(2, 170)), datalen |-> NullInt],
        [oid |-> Ptr(OidA), data |-> Ptr(Fill(1, 170)), datalen |-> IntPtr(1)]}

\* the range check at the top of _prSideChannelSNMPGet
GetArgsBad(oid, data, datalen) ==
  \/ oid.null \/ oid.mem = <<>>
  \/ data.null \/ datalen.null
  \/ datalen.val < 2

\* a copy that starts at real_data instead of real_data + real_oidlen: not
\* the copy of the code
GetCopyFromStart(data, seen, real_oidlen, real_datalen) ==
  Store(MemCpy(data, seen, real_datalen), real_datalen, 0)

\* memcpy(data, real_data + real_oidlen, real_datalen) and
\* data[real_datalen] = '\0', seen being the bytes at real_data
GetCopy(data, seen, real_oidlen, real_datalen) ==
  Store(MemCpy(data, SubSeq(seen, real_oidlen + 1, Len(seen)), real_datalen),
        real_datalen, 0)

\* the test for room in the caller's buffer
GetTooBig(real_datalen, capacity) == (real_datalen + 1) > capacity

\* the application calls _prSideChannelSNMPGet(oid, data, &datalen, timeout)
CallSideChannelSNMPGet ==
  /\ pc = "idle" /\ inq = <<>>
  /\ \E c \in GetCalls, t \in {-1, 0} :
       /\ op' = "get" /\ pc' = "get_check" /\ timeout' = t
       /\ gt' = [GT0 EXCEPT !.oid = c.oid, !.data = c.data,
                            !.datalen = c.datalen]
  /\ UNCHANGED <<errno, nerr, nsys, outq, inq, w, r, rq, wk, bc, bcq, ret,
                 hist>>

\* range check, *data = '\0', and the call of _prSideChannelWrite(SNMP_GET,
\* NONE, oid, strlen(oid) + 1, timeout)
SideChannelSNMPGet_check ==
  /\ pc = "get_check"
  /\ IF GetArgsBad(gt.oid, gt.data, gt.datalen)
     THEN /\ pc' = "done" /\ ret' = PR_SC_STATUS_BAD_MESSAGE
          /\ UNCHANGED <<gt, w>>
     ELSE /\ gt' = [gt EXCEPT !.data = Ptr(Store(gt.data.mem, 0, 0))]
          /\ w' = [W0 EXCEPT !.command = PR_SC_CMD_SNMP_GET,
                             !.status = PR_SC_STATUS_NONE,
                             !.data = Ptr(gt.oid.mem \o <<0>>),
                             !.datalen = Len(gt.oid.mem) + 1]
          /\ pc' = "scw_check" /\ ret' = ret
  /\ UNCHANGED <<op, timeout, errno, nerr, nsys, outq, inq, r, rq, wk, bc,
                 bcq, hist>>

\* _prSideChannelWrite has returned: TIMEOUT if it failed; otherwise
\* malloc(_CUPS_SC_MAX_BUFFER), TOO_BIG if it fails, and
\* _prSideChannelRead(&rcommand, &status, real_data, &real_datalen, timeout)
\* is called with real_datalen = _CUPS_SC_MAX_BUFFER
SideChannelSNMPGet_wrote ==
  /\ pc = "get_wrote"
  /\ IF w.ret # 0
     THEN pc' = "done" /\ ret' = PR_SC_STATUS_TIMEOUT /\ r' = r
     ELSE \E ok \in BOOLEAN :
            IF ok
            THEN /\ r' = [R0 EXCEPT !.data = Ptr(<<>>),
                                    !.datalen = IntPtr(CUPS_SC_MAX_BUFFER)]
                 /\ pc' = "scr_check" /\ ret' = ret
            ELSE pc' = "done" /\ ret' = PR_SC_STATUS_TOO_BIG /\ r' = r
  /\ UNCHANGED <<op, timeout, errno, nerr, nsys, outq, inq, w, rq, wk, bc,
                 bcq, hist, gt>>

\* _prSideChannelRead has returned: TIMEOUT if it failed, BAD_MESSAGE if the
\* response command is not SNMP_GET, the status read if it is not OK.
\* With status OK the value after the OID is copied out, or TOO_BIG is
\* returned. real_data is not terminated before strlen(): without a NUL in
\* the payload strlen() runs into the indeterminate bytes of the allocation,
\* real_datalen becomes negative and memcpy() is called with that length
\* converted to size_t, after which the process has crashed or goes on
\* with the caller's buffer as it was.
SideChannelSNMPGet_read ==
  /\ pc = "get_read"
  /\ IF r.ret # 0
     THEN pc' = "done" /\ ret' = PR_SC_STATUS_TIMEOUT /\ gt' = gt
     ELSE IF r.command # PR_SC_CMD_SNMP_GET
     THEN pc' = "done" /\ ret' = PR_SC_STATUS_BAD_MESSAGE /\ gt' = gt
     ELSE IF r.status # PR_SC_STATUS_OK
     THEN pc' = "done" /\ ret' = r.status /\ gt' = gt
     ELSE \E g \in (IF HasNul(r.data.mem) THEN {<<>>} ELSE Garbage) :
            LET seen == Seen(r.data.mem, g)
                real_oidlen == StrLen(seen) + 1
                real_datalen == r.datalen.val - real_oidlen
                gl == [gt EXCEPT !.real_oidlen = real_oidlen,
                                 !.real_datalen = real_datalen]
            IN  IF GetTooBig(real_datalen, gt.datalen.val)
                THEN pc' = "done" /\ ret' = PR_SC_STATUS_TOO_BIG /\ gt' = gl
                ELSE IF real_datalen < 0
                THEN \/ pc' = "crashed" /\ ret' = ret /\ gt' = gl
                     \/ /\ pc' = "done" /\ ret' = r.status
                        /\ gt' = [gl EXCEPT !.datalen = IntPtr(real_datalen)]
                ELSE /\ pc' = "done" /\ ret' = r.status
                     /\ gt' = [gl EXCEPT
                                 !.data = Ptr(GetCopy(gt.data.mem, seen,
                                                      real_oidlen,
                                                      real_datalen)),
                                 !.datalen = IntPtr(real_datalen)]
  /\ UNCHANGED <<op, timeout, errno, nerr, nsys, outq, inq, w, r, rq, wk, bc,
                 bcq, hist>>

---------------------------------------------------------------------------
(* The environment: the peer, and the application between calls *)

\* the peer takes what was written to it and its bytes arrive before the
\* receiver starts to wait
PeerSend ==
  /\ pc = "scr_check" /\ op \in {"scr", "req"} /\ inq = <<>>
  /\ inq' \in PeerMsgs
  /\ outq' = <<>>
  /\ UNCHANGED <<pc, op, timeout, errno, nerr, nsys, w, r, rq, wk, bc, bcq,
                 ret, hist, gt>>

\* the backend takes the request and its answer arrives before the walk
\* starts to wait
PeerReply ==
  /\ pc = "scr_check" /\ op = "walk" /\ inq = <<>>
  /\ wk.round <= MaxRounds
  /\ \E f \in WalkReplies : inq' = f /\ hist' = Append(hist, f)
  /\ outq' = <<>>
  /\ UNCHANGED <<pc, op, timeout, errno, nerr, nsys, w, r, rq, wk, bc, bcq,
                 ret, gt>>

\* the backend takes the get request and its answer arrives before
\* _prSideChannelSNMPGet starts to wait
PeerAnswer ==
  /\ pc = "scr_check" /\ op = "get" /\ inq = <<>>
  /\ inq' \in GetFrames
  /\ outq' = <<>>
  /\ UNCHANGED <<pc, op, timeout, errno, nerr, nsys, w, r, rq, wk, bc, bcq,
                 ret, hist, gt>>

\* the frame a finished _prSideChannelWrite put whole on the descriptor
\* reaches the other end of the descriptor pair; w is kept as the record of
\* what the writer built
Deliver ==
  /\ pc = "done" /\ op = "scw" /\ outq # <<>> /\ outq = w.buffer
  /\ inq' = outq /\ outq' = <<>>
  /\ pc' = "idle" /\ op' = "none" /\ timeout' = 0
  /\ errno' = "none" /\ nerr' = 0 /\ nsys' = NSys0 /\ ret' = 0
  /\ UNCHANGED <<w, r, rq, wk, bc, bcq, hist, gt>>

\* the call has returned; the application starts afresh
Return ==
  /\ pc = "done"
  /\ pc' = "idle" /\ op' = "none" /\ timeout' = 0
  /\ errno' = "none" /\ nerr' = 0 /\ nsys' = NSys0
  /\ outq' = <<>> /\ inq' = <<>>
  /\ w' = W0 /\ r' = R0 /\ rq' = RQ0 /\ wk' = WK0 /\ bc' = BC0
  /\ bcq' = <<>>
  /\ ret' = 0 /\ hist' = <<>> /\ gt' = GT0

---------------------------------------------------------------------------
(* Specifications *)

\* a writer and a reader on the two ends of the side channel
NextFrame ==
  \/ CallSideChannelWrite \/ SideChannelWrite_check \/ SideChannelWrite_poll
  \/ SideChannelWrite_build \/ SideChannelWrite_write
  \/ CallSideChannelRead \/ SideChannelRead_check \/ SideChannelRead_poll
  \/ SideChannelRead_malloc \/ SideChannelRead_read \/ SideChannelRead_decode
  \/ PeerSend \/ Deliver \/ Return

SpecFrame == Init /\ [][NextFrame]_vars

\* a client doing requests against a peer
NextRequest ==
  \/ CallSideChannelDoRequest \/ SideChannelDoRequest_wrote
  \/ SideChannelDoRequest_read
  \/ SideChannelWrite_check \/ SideChannelWrite_poll
  \/ SideChannelWrite_build \/ SideChannelWrite_write
  \/ SideChannelRead_check \/ SideChannelRead_poll
  \/ SideChannelRead_malloc \/ SideChannelRead_read \/ SideChannelRead_decode
  \/ PeerSend \/ Return

SpecRequest == Init /\ [][NextRequest]_vars

\* the back channel
NextBack ==
  \/ CallBackChannelRead \/ BackChannelRead_select \/ BackChannelRead_read
  \/ CallBackChannelWrite \/ BackChannelWrite_select
  \/ BackChannelWrite_write
  \/ Return

SpecBack == Init /\ [][NextBack]_vars

\* a client walking a subtree against a backend
NextWalk ==
  \/ CallSideChannelSNMPWalk \/ SideChannelSNMPWalk_check
  \/ SideChannelSNMPWalk_send \/ SideChannelSNMPWalk_wrote
  \/ SideChannelSNMPWalk_read
  \/ SideChannelWrite_check \/ SideChannelWrite_poll
  \/ SideChannelWrite_build \/ SideChannelWrite_write
  \/ SideChannelRead_check \/ SideChannelRead_poll
  \/ SideChannelRead_malloc \/ SideChannelRead_read \/ SideChannelRead_decode
  \/ PeerReply \/ Return

SpecWalk == Init /\ [][NextWalk]_vars

\* a client getting one OID from a backend
NextGet ==
  \/ CallSideChannelSNMPGet \/ SideChannelSNMPGet_check
  \/ SideChannelSNMPGet_wrote \/ SideChannelSNMPGet_read
  \/ SideChannelWrite_check \/ SideChannelWrite_poll
  \/ SideChannelWrite_build \/ SideChannelWrite_write
  \/ SideChannelRead_check \/ SideChannelRead_poll
  \/ SideChannelRead_malloc \/ SideChannelRead_read \/ SideChannelRead_decode
  \/ PeerAnswer \/ Return

SpecGet == Init /\ [][NextGet]_vars

\* every call
Next ==
  \/ CallSideChannelWrite \/ SideChannelWrite_check \/ SideChannelWrite_poll
  \/ SideChannelWrite_build \/ SideChannelWrite_write
  \/ CallSideChannelRead \/ SideChannelRead_check \/ SideChannelRead_poll
  \/ SideChannelRead_malloc \/ SideChannelRead_read \/ SideChannelRead_decode
  \/ CallSideChannelDoRequest \/ SideChannelDoRequest_wrote
  \/ SideChannelDoRequest_read
  \/ CallBackChannelRead \/ BackChannelRead_select \/ BackChannelRead_read
  \/ CallBackChannelWrite \/ BackChannelWrite_select
  \/ BackChannelWrite_write
  \/ CallSideChannelSNMPWalk \/ SideChannelSNMPWalk_check
  \/ SideChannelSNMPWalk_send \/ SideChannelSNMPWalk_wrote
  \/ SideChannelSNMPWalk_read
  \/ CallSideChannelSNMPGet \/ SideChannelSNMPGet_check
  \/ SideChannelSNMPGet_wrote \/ SideChannelSNMPGet_read
  \/ PeerSend \/ PeerReply \/ PeerAnswer \/ Deliver \/ Return

Spec == Init /\ [][Next]_vars

---------------------------------------------------------------------------
(* Properties of the frame transport *)

\* the reader is about to decode, in one piece, the frame the writer built
WholeFrameRead ==
  /\ pc = "scr_decode" /\ op = "scr"
  /\ w.bytes > 0 /\ r.buffer = w.buffer

\* the reader's buffer has room for the writer's data
RoomFor(n) ==
  /\ ~r.datalen.null /\ r.datalen.val >= n
  /\ (n > 0 => ~r.data.null)

\* C1: round trip. When the frame _prSideChannelWrite built for (command,
\* status, data of length n) is read whole by _prSideChannelRead called with
\* a capacity of at least n, the read returns 0 with the same command, the
\* same status, *datalen = n and the same n data bytes.
C1_RoundTrip ==
  [][ (WholeFrameRead /\ RoomFor(w.datalen)) =>
        /\ r'.ret = 0 /\ ret' = 0
        /\ r'.command = w.command
        /\ r'.status = w.status
        /\ r'.datalen = IntPtr(w.datalen)
        /\ (w.datalen > 0 =>
              SubSeq(r'.data.mem, 1, w.datalen)
                = SubSeq(w.data.mem, 1, w.datalen)) ]_vars

\* a message whose length needs both length bytes has made the round trip
C1_Witness ==
  /\ pc = "done" /\ op = "scr" /\ ret = 0
  /\ r.buffer = w.buffer
  /\ w.datalen > 255
  /\ r.datalen = IntPtr(w.datalen)
  /\ r.data.mem = w.data.mem
  /\ r.command = w.command /\ r.status = w.status

\* the three decode failures, for the bytes in r.buffer and the caller's
\* buffer: a short message, a command byte outside the valid range, a
\* declared length above the capacity or above the bytes after the header
ShortMessage == r.bytes < 4
CommandOutside ==
  r.bytes >= 4 /\ r.buffer[1] \notin PR_SC_CMD_SOFT_RESET..(PR_SC_CMD_MAX - 1)
Capacity == IF r.data.null \/ r.datalen.null THEN 0 ELSE r.datalen.val
DeclaredTooLong ==
  /\ r.bytes >= 4
  /\ \/ TempLen(r.buffer) > Capacity
     \/ TempLen(r.buffer) > r.bytes - 4

\* C2 as stated: every decode failure sets the output command to NONE, the
\* output status to the reason, and returns -1.
C2_AsStated ==
  [][ (pc = "scr_decode" /\ (ShortMessage \/ CommandOutside \/ DeclaredTooLong))
        => /\ r'.ret = -1
           /\ r'.command = PR_SC_CMD_NONE
           /\ r'.status \in {PR_SC_STATUS_BAD_MESSAGE, PR_SC_STATUS_TOO_BIG}
    ]_vars

\* C2: a message of fewer than 4 bytes or with a command byte outside the
\* valid range sets the output command to NONE, the output status to
\* bad-message and returns -1; a valid header whose declared length is above
\* the capacity or above the bytes received after the header returns 0 with
\* the output command set to the frame's command, the output status too-big
\* and the caller's buffer and length as they were.
C2_DecodeFailure ==
  [][ (pc = "scr_decode") =>
        /\ (ShortMessage \/ CommandOutside) =>
              /\ r'.ret = -1
              /\ r'.command = PR_SC_CMD_NONE
              /\ r'.status = PR_SC_STATUS_BAD_MESSAGE
        /\ (DeclaredTooLong /\ ~CommandOutside) =>
              /\ r'.ret = 0
              /\ r'.command = r.buffer[1]
              /\ r'.status = PR_SC_STATUS_TOO_BIG
              /\ r'.data = r.data /\ r'.datalen = r.datalen ]_vars

\* a read has returned 0 with status too-big and the command of the frame
C2_Witness ==
  /\ pc = "done" /\ op = "scr" /\ ret = 0
  /\ r.bytes >= 4 /\ TempLen(r.buffer) > r.bytes - 4
  /\ r.status = PR_SC_STATUS_TOO_BIG
  /\ r.command = PR_SC_CMD_GET_CONNECTED

\* C3 as stated: a request of command C answered by a message whose command
\* byte is not C returns bad-message, whatever its status byte and length.
C3_AsStated ==
  (pc = "done" /\ op = "req" /\ w.ret = 0 /\ r.bytes >= 4
     /\ r.buffer[1] # rq.command)
  => ret = PR_SC_STATUS_BAD_MESSAGE

\* a reply whose command byte is outside the valid range has given timeout
C3_Witness ==
  /\ pc = "done" /\ op = "req" /\ w.ret = 0
  /\ rq.command = PR_SC_CMD_SOFT_RESET
  /\ r.buffer = <<PR_SC_CMD_MAX, PR_SC_STATUS_OK, 0, 0>>
  /\ r.status = PR_SC_STATUS_BAD_MESSAGE
  /\ ret = PR_SC_STATUS_TIMEOUT

\* C4 as stated: when _prSideChannelWrite returns 0 for a message of n data
\* bytes, the whole frame of n + 4 bytes is on the descriptor.
C4_AsStated ==
  (pc = "done" /\ op = "scw" /\ ret = 0)
  => (outq = w.buffer /\ Len(outq) = w.datalen + 4)

\* a write has returned 0 with one byte of a longer frame on the descriptor
C4_Witness ==
  /\ pc = "done" /\ op = "scw" /\ ret = 0
  /\ w.bytes = w.datalen + 4 /\ w.datalen > 0
  /\ Len(outq) = 1 /\ nsys.write = 1

\* the four transport functions
Transports == {"bcr", "bcw", "scr", "scw"}

\* C5 as stated: a transport function never returns a failure to its caller
\* on a system call that failed with EINTR or EAGAIN.
C5_AsStated ==
  (pc = "done" /\ op \in Transports /\ errno \in Transient) => ret # -1

\* _prBackChannelWrite has returned -1 on an interrupted select(), after a
\* part of the buffer was written
C5_Witness ==
  /\ pc = "done" /\ op = "bcw" /\ ret = -1
  /\ errno = "EINTR" /\ bc.status < 0
  /\ bc.total > 0 /\ bc.total < bc.bytes

\* C6 as stated: with a timeout >= 0, a readiness wait that fails with a
\* hard error ends the transport function with an error result: the wait is
\* not made again.
C6_AsStated ==
  [][ (op \in Transports /\ timeout >= 0
         /\ pc \in {"bcr_select", "bcw_select", "scr_poll", "scw_poll"}
         /\ nerr' > nerr /\ errno' \notin Transient)
        => (pc' = "done" /\ ret' = -1) ]_vars

\* _prBackChannelRead is about to call select() again after a hard error
C6_Witness ==
  /\ pc = "bcr_select" /\ op = "bcr" /\ timeout >= 0
  /\ errno = "EBADF" /\ bc.status < 0 /\ nerr = MaxErr

---------------------------------------------------------------------------
(* Properties of the walk *)

\* the payload of a frame
Payload(f) == SubSeq(f, 5, Len(f))

\* f is an ok get-next reply: a whole frame with the get-next command,
\* status ok and a payload "oid\0value"
OkReply(f) ==
  /\ Len(f) >= 4
  /\ f[1] = PR_SC_CMD_SNMP_GET_NEXT /\ f[2] = PR_SC_STATUS_OK
  /\ f[3] * 256 + f[4] = Len(f) - 4
  /\ \E i \in 5..Len(f) : f[i] = 0

\* the OID of an ok reply: its payload up to the first NUL
ReplyOid(f) ==
  LET k == CHOOSE i \in 5..Len(f) :
             f[i] = 0 /\ \A j \in 5..(i - 1) : f[j] # 0
  IN  SubSeq(f, 5, k - 1)

\* the OID o begins with the root OID followed by '.'
BelowRoot(o) ==
  LET root == wk.oid.mem
  IN  /\ Len(o) > Len(root)
      /\ \A i \in 1..Len(root) : o[i] = root[i]
      /\ o[Len(root) + 1] = 46

\* the OID of reply i is outside the subtree
OutOfSubtree(i) == ~BelowRoot(ReplyOid(hist[i]))

\* the OID of reply i is the OID of reply i - 1, as far as last_oid keeps it
SameAsLast(i) ==
  /\ i > 1
  /\ LET prev == ReplyOid(hist[i - 1])
         kept == IF Len(prev) < LAST_OID_SIZE THEN Len(prev)
                 ELSE LAST_OID_SIZE - 1
     IN  ReplyOid(hist[i]) = SubSeq(prev, 1, kept)

OutOrSameAsLast(i) == OutOfSubtree(i) \/ SameAsLast(i)

\* the law of a walk whose replies are all ok replies, Stop(i) saying that
\* reply i ends it: the callbacks are the replies before the first reply
\* that ends the walk, once each and in order; every reply that does not end
\* the walk has had its callback before the next request; the walk returns
\* ok at the reply that ends it, with no callback for it and no request
\* after it
WalkLaw(Stop(_)) ==
  (op = "walk" /\ \A i \in 1..Len(hist) : OkReply(hist[i])) =>
    /\ Len(wk.cbs) <= Len(hist)
    /\ \A i \in 1..Len(wk.cbs) :
         wk.cbs[i].oid = ReplyOid(hist[i]) /\ ~Stop(i)
    /\ (pc = "walk_send" => Len(wk.cbs) = Len(hist))
    /\ (pc = "done" /\ ret = PR_SC_STATUS_OK) =>
         /\ hist # <<>> /\ Stop(Len(hist))
         /\ Len(wk.cbs) = Len(hist) - 1
         /\ wk.round = Len(hist)
    /\ (pc = "done" /\ hist # <<>> /\ w.ret = 0 /\ r.ret = 0) =>
         ret = PR_SC_STATUS_OK

\* C7 as stated: for any sequence of ok replies the callbacks are, once each
\* and in order, the replies before the first one whose OID is outside the
\* subtree, where the walk returns ok with no callback and no further
\* request.
C7_AsStated == WalkLaw(OutOfSubtree)

\* C7: for any sequence of ok replies the callbacks are, once each and in
\* order, the replies before the first one whose OID is outside the subtree
\* or is the OID of the reply before it (as far as last_oid keeps it), where
\* the walk returns ok with no callback and no further request.
C7_Walk == WalkLaw(OutOrSameAsLast)

\* replies .1.1, .1.2, .2 under the root .1: two callbacks, then ok
C7_Witness ==
  /\ pc = "done" /\ op = "walk" /\ ret = PR_SC_STATUS_OK
  /\ wk.oid.mem = OidRoot
  /\ Len(hist) = 3 /\ \A i \in 1..3 : OkReply(hist[i])
  /\ ReplyOid(hist[3]) = OidOut
  /\ Len(wk.cbs) = 2
  /\ wk.cbs[1].oid = OidA /\ wk.cbs[2].oid = OidB
  /\ wk.round = 3

\* C8 as stated: when two consecutive ok replies carry the same in-subtree
\* OID, there is no callback for the second, no request after it, and the
\* walk returns ok.
C8_AsStated ==
  LET n == Len(hist)
  IN  (/\ op = "walk" /\ n >= 2
       /\ \A i \in 1..n : OkReply(hist[i])
       /\ ReplyOid(hist[n]) = ReplyOid(hist[n - 1])
       /\ BelowRoot(ReplyOid(hist[n])))
      => /\ Len(wk.cbs) <= n - 1
         /\ wk.round <= n
         /\ pc # "walk_send"
         /\ (pc = "done" /\ w.ret = 0 /\ r.ret = 0) => ret = PR_SC_STATUS_OK

\* the walk goes on after the repeat of an OID of LAST_OID_SIZE characters,
\* with a callback for each of the two
C8_Witness ==
  /\ pc = "walk_send" /\ op = "walk"
  /\ Len(hist) = 2 /\ \A i \in 1..2 : OkReply(hist[i])
  /\ ReplyOid(hist[1]) = OidLong /\ ReplyOid(hist[2]) = OidLong
  /\ Len(wk.cbs) = 2 /\ wk.cbs[2].oid = OidLong

\* the last round of a finished walk: its send or its receive failed
RoundFailed == w.ret # 0 \/ r.ret # 0
\* the status byte of the reply the last round received
ReplyStatus == r.buffer[2]
\* the reply the last round received declares no more than it carries
ReplyWhole == r.buffer[3] * 256 + r.buffer[4] <= Len(r.buffer) - 4

\* C9 as stated: a walk that ends on a reply whose status is not ok returns
\* that status, and one whose send or receive failed returns timeout; in
\* both cases there is one callback for each earlier round and none for the
\* last.
C9_AsStated ==
  (pc = "done" /\ op = "walk" /\ wk.round >= 1) =>
    /\ RoundFailed => ret = PR_SC_STATUS_TIMEOUT
    /\ (~RoundFailed /\ ReplyStatus # PR_SC_STATUS_OK) =>
         /\ ret = ReplyStatus
         /\ Len(wk.cbs) = wk.round - 1

\* C9: a walk whose send or receive fails returns timeout; one that ends on
\* a whole get-next reply whose status is not ok returns that status; one
\* that ends on a reply with another command returns bad-message, whatever
\* the status of the reply. In each case there is one callback for each
\* earlier round and none for the last, and the walk goes on to another
\* request only after a round that gave a get-next reply with status ok.
C9_Stop ==
  (op = "walk" /\ wk.round >= 1) =>
    /\ pc = "done" =>
         /\ Len(wk.cbs) = wk.round - 1
         /\ RoundFailed => ret = PR_SC_STATUS_TIMEOUT
         /\ (~RoundFailed /\ r.buffer[1] # PR_SC_CMD_SNMP_GET_NEXT) =>
              ret = PR_SC_STATUS_BAD_MESSAGE
         /\ (~RoundFailed /\ r.buffer[1] = PR_SC_CMD_SNMP_GET_NEXT
               /\ ReplyWhole /\ ReplyStatus # PR_SC_STATUS_OK) =>
              ret = ReplyStatus
    /\ pc = "walk_send" =>
         /\ Len(wk.cbs) = wk.round
         /\ ~RoundFailed
         /\ r.buffer[1] = PR_SC_CMD_SNMP_GET_NEXT
         /\ ReplyStatus = PR_SC_STATUS_OK

\* the walk has returned not-implemented in its third round, after two
\* callbacks
C9_Witness ==
  /\ pc = "done" /\ op = "walk" /\ ret = PR_SC_STATUS_NOT_IMPLEMENTED
  /\ ~RoundFailed /\ ReplyStatus = PR_SC_STATUS_NOT_IMPLEMENTED
  /\ wk.round = 3 /\ Len(wk.cbs) = 2

---------------------------------------------------------------------------
(* Properties of the request *)

\* the steps of _prSideChannelWrite and of _prSideChannelRead
WriteSteps == {"scw_check", "scw_poll", "scw_build", "scw_write"}
ReadSteps == {"scr_check", "scr_poll", "scr_malloc", "scr_read", "scr_decode"}

\* s is a prefix of t
IsPrefix(s, t) == Len(s) <= Len(t) /\ \A i \in 1..Len(s) : s[i] = t[i]

\* C10: _prSideChannelDoRequest does one round trip. At most one write()
\* and one read() succeed, what is written is the frame (command, none, no
\* payload) or a part of it, the read side begins only after the write
\* returned 0 and is never followed by another write, and the request ends
\* with timeout without any read when the write fails.
C10_OneRoundTrip ==
  (op = "req") =>
    /\ nsys.write <= 1 /\ nsys.read <= 1
    /\ nsys.read <= nsys.write
    /\ IsPrefix(outq, <<rq.command, PR_SC_STATUS_NONE, 0, 0>>)
    /\ pc \in WriteSteps => (nsys.write = 0 /\ nsys.read = 0 /\ r = R0)
    /\ (pc \in ReadSteps \cup {"req_read"} \/ nsys.read > 0 \/ r # R0) =>
         (w.ret = 0 /\ nsys.write = 1)
    /\ (pc = "done" /\ w.ret # 0) =>
         (ret = PR_SC_STATUS_TIMEOUT /\ nsys.read = 0 /\ r = R0)

\* a request has ended on a reply that is not ok, after one write and one
\* read and an interrupted system call
C10_Witness ==
  /\ pc = "done" /\ op = "req"
  /\ ret = PR_SC_STATUS_BAD_MESSAGE /\ r.command = rq.command
  /\ nsys.write = 1 /\ nsys.read = 1 /\ nerr > 0

\* the request has ended on a reply that carries the request's command
MatchingReply ==
  /\ pc = "done" /\ op = "req" /\ w.ret = 0
  /\ r.bytes >= 4 /\ r.buffer[1] = rq.command

\* the data length the reply declares
Declared == r.buffer[3] * 256 + r.buffer[4]

\* the declared data fit the caller's buffer and the bytes received
ReplyFits ==
  /\ ~rq.datalen.null /\ Declared <= rq.datalen.val
  /\ Declared <= r.bytes - 4
  /\ (Declared > 0 => ~rq.data.null)

\* the request returns the reply's status byte and gives the caller the
\* declared length and that many bytes of the reply
ReplyHandedOver ==
  /\ ret % 256 = r.buffer[2]
  /\ r.datalen = IntPtr(Declared)
  /\ (Declared > 0 =>
        SubSeq(r.data.mem, 1, Declared) = SubSeq(r.buffer, 5, 4 + Declared))

\* C11 as stated: whenever the reply carries the request's command, the
\* request returns the reply's status byte, sets *datalen to the declared
\* length and leaves that many reply bytes in the caller's buffer.
C11_AsStated == MatchingReply => ReplyHandedOver

\* C11: whenever the reply carries the request's command and its declared
\* length is no more than the caller's capacity and no more than the bytes
\* received after the header, the request returns the reply's status byte,
\* sets *datalen to the declared length and leaves that many reply bytes in
\* the caller's buffer; when the declared length is more than either, the
\* request returns too-big and leaves the buffer and *datalen as they were.
C11_Reply ==
  MatchingReply =>
    IF ReplyFits THEN ReplyHandedOver
    ELSE /\ ret = PR_SC_STATUS_TOO_BIG
         /\ r.data = rq.data /\ r.datalen = rq.datalen

\* a request has returned the status of a reply of two data bytes, which
\* are in a buffer that had room for more
C11_Witness ==
  /\ MatchingReply /\ ReplyFits
  /\ Declared = 2 /\ rq.datalen.val > 2
  /\ ret = PR_SC_STATUS_BAD_MESSAGE /\ r.buffer[2] = PR_SC_STATUS_BAD_MESSAGE
  /\ r.datalen.val = 2 /\ r.data.mem = <<65, 65>>

---------------------------------------------------------------------------
(* Properties of the decoder *)

\* the most bytes a decode may copy: the capacity given on entry, and the
\* bytes received after the header
CopyLimit ==
  IF r.bytes < 4 THEN 0
  ELSE IF Capacity < r.bytes - 4 THEN Capacity ELSE r.bytes - 4

C13_ShortRead ==
  [][ (pc = "scr_decode" /\ r.bytes \in 0..3) =>
        /\ r'.ret = -1
        /\ r'.command = PR_SC_CMD_NONE
        /\ r'.status = PR_SC_STATUS_BAD_MESSAGE
        /\ r'.data = r.data /\ r'.datalen = r.datalen
        /\ (op = "scr" => ret' = -1) ]_vars

\* a read that got three bytes has returned -1 with its buffer untouched
C13_Witness ==
  /\ pc = "done" /\ op = "scr" /\ ret = -1
  /\ r.bytes = 3 /\ Len(r.buffer) = 3
  /\ r.command = PR_SC_CMD_NONE /\ r.status = PR_SC_STATUS_BAD_MESSAGE
  /\ r.datalen = IntPtr(MaxData) /\ r.data.mem = Fill(MaxData, 170)

---------------------------------------------------------------------------
(* Properties of the back channel *)

\* what holds at every point of _prBackChannelWrite: the bytes on the
\* descriptor are the first total bytes of the buffer, the next write()
\* starts at the first byte not yet transferred, every write() that did not
\* fail transferred at least one byte, the loop goes on while bytes are
\* left, the call returns the buffer's size only with every byte
\* transferred, and it fails only on an error or a wait that was not ready
WriteAllState ==
  (op = "bcw") =>
    /\ bc.off = bc.total /\ bc.total <= bc.bytes
    /\ bcq = SubSeq(bc.buffer, 1, bc.total)
    /\ nsys.write <= bc.total
    /\ pc \in {"bcw_select", "bcw_write"} => bc.total < bc.bytes
    /\ (pc = "done" /\ ret # -1) =>
         (ret = bc.bytes /\ bc.total = bc.bytes /\ bcq = bc.buffer)
    /\ (pc = "done" /\ ret = -1) => (nerr > 0 \/ bc.status <= 0)

\* a write() that accepts one byte: one attempt more, one byte more on the
\* descriptor, the byte that follows those already transferred
WriteOneByte ==
  (pc = "bcw_write" /\ bc'.count = 1) =>
    /\ nsys'.write = nsys.write + 1
    /\ bc'.total = bc.total + 1
    /\ bcq' = Append(bcq, bc.buffer[bc.total + 1])

\* C14: _prBackChannelWrite of N bytes to a descriptor that is always ready
\* and takes one byte per write() returns N after N write() calls, each
\* starting at the first byte not yet transferred: the N bytes arrive in
\* order, none lost, none twice.
C14_OneBytePerWrite == []WriteAllState /\ [][WriteOneByte]_vars

\* a buffer of MaxData bytes has gone out in MaxData write() calls of one
\* byte, with no failure and no timeout
C14_Witness ==
  /\ pc = "done" /\ op = "bcw" /\ nerr = 0
  /\ bc.bytes = MaxData /\ ret = MaxData
  /\ nsys.write = MaxData /\ nsys.poll = MaxData
  /\ bcq = bc.buffer /\ bc.buffer[1] # bc.buffer[MaxData]

\* the last system call failed with an error other than EINTR and EAGAIN
HardError == errno # "none" /\ errno \notin Transient

\* C15 as stated: a write that has transferred its first byte ends only with
\* every byte transferred or on a hard write error, for _prBackChannelWrite
\* and for the frame write of _prSideChannelWrite; a wait that times out
\* after a partial write does not end it.
C15_AsStated ==
  /\ (pc = "done" /\ op = "bcw" /\ bc.total > 0) =>
       \/ bc.total = bc.bytes
       \/ (bc.count < 0 /\ HardError)
  /\ (pc = "done" /\ op = "scw" /\ Len(outq) > 0) =>
       outq = w.buffer

\* _prBackChannelWrite has returned -1 on a select() that timed out after a
\* part of the buffer was written, no system call having failed
C15_Witness ==
  /\ pc = "done" /\ op = "bcw" /\ ret = -1 /\ nerr = 0
  /\ bc.status = 0 /\ timeout >= 0
  /\ bc.total > 0 /\ bc.total < bc.bytes
  /\ bcq = SubSeq(bc.buffer, 1, bc.total)

---------------------------------------------------------------------------
(* Properties of the readiness wait *)

\* one readiness check and no read() or write()
OneCheckOnly == nsys = [poll |-> 1, read |-> 0, write |-> 0]

\* a call with timeout 0 has ended, no system call having failed
EndedAtZero == pc = "done" /\ timeout = 0 /\ nerr = 0

\* C16: with timeout 0 and a descriptor that is never ready, each transport
\* function makes one readiness check, no read() and no write(), and gives
\* its timeout result: -1 from _prSideChannelWrite, _prBackChannelRead and
\* _prBackChannelWrite, -1 with status timeout from _prSideChannelRead,
\* timeout from _prSideChannelDoRequest. No function reads or writes unless
\* its last readiness check reported the descriptor ready.
C16_NeverReady ==
  /\ pc = "scw_write" => w.nfds >= 1
  /\ pc = "scr_read" => r.nfds >= 1
  /\ pc \in {"bcr_read", "bcw_write"} => bc.status >= 1
  /\ (EndedAtZero /\ op = "scw" /\ nsys.poll >= 1 /\ w.nfds = 0) =>
       (ret = -1 /\ OneCheckOnly /\ outq = <<>>)
  /\ (EndedAtZero /\ op = "scr" /\ nsys.poll >= 1 /\ r.nfds = 0) =>
       /\ ret = -1 /\ OneCheckOnly
       /\ r.status = PR_SC_STATUS_TIMEOUT /\ r.command = PR_SC_CMD_NONE
  /\ (EndedAtZero /\ op = "req" /\ nsys.poll >= 1 /\ w.nfds = 0) =>
       (ret = PR_SC_STATUS_TIMEOUT /\ OneCheckOnly /\ outq = <<>> /\ r = R0)
  /\ (EndedAtZero /\ op = "bcr" /\ nsys.poll >= 1 /\ bc.status = 0) =>
       (ret = -1 /\ OneCheckOnly)
  /\ (EndedAtZero /\ op = "bcw" /\ nsys.poll >= 1 /\ bc.status = 0
        /\ nsys.write = 0) =>
       (ret = -1 /\ OneCheckOnly /\ bcq = <<>>)

\* a request with timeout 0 has returned timeout after one check that found
\* the descriptor not ready
C16_Witness ==
  /\ EndedAtZero /\ op = "req" /\ w.nfds = 0
  /\ rq.command = PR_SC_CMD_GET_CONNECTED
  /\ OneCheckOnly /\ ret = PR_SC_STATUS_TIMEOUT

---------------------------------------------------------------------------
(* Properties of the argument check of _prSideChannelWrite *)

\* the arguments of the running _prSideChannelWrite are not legal
IllegalWrite ==
  \/ w.command \notin PR_SC_CMD_SOFT_RESET .. PR_SC_CMD_MAX - 1
  \/ w.datalen \notin 0 .. CUPS_SC_MAX_DATA
  \/ (w.datalen > 0 /\ w.data.null)

NoSysCall == nsys = NSys0 /\ nerr = 0

\* C17: _prSideChannelWrite called with a command outside the valid range,
\* a length below 0 or above 65535, or a positive length with a null data
\* pointer returns -1 before any readiness wait and any write(): no system
\* call is made and nothing is put on the channel.
C17_Rejected ==
  (op = "scw" /\ IllegalWrite) =>
     /\ pc \in {"scw_check", "done"}
     /\ NoSysCall /\ outq = <<>>
     /\ pc = "done" => ret = -1

\* a call with one byte to send and a null data pointer has been rejected
C17_Witness ==
  /\ op = "scw" /\ pc = "done" /\ ret = -1
  /\ w.command = PR_SC_CMD_SOFT_RESET /\ w.datalen = 1 /\ w.data.null
  /\ NoSysCall /\ outq = <<>>

---------------------------------------------------------------------------
(* Properties of the repeat guard of the walk *)

\* the replies of the running walk are ok replies with OIDs below the root,
\* no reply having the OID of the reply before it
NoRepeatInSubtree ==
  /\ op = "walk" /\ hist # <<>>
  /\ \A i \in 1..Len(hist) : OkReply(hist[i]) /\ BelowRoot(ReplyOid(hist[i]))
  /\ \A i \in 2..Len(hist) : ReplyOid(hist[i]) # ReplyOid(hist[i - 1])

\* C19 as stated: against ok replies with OIDs below the root of which no two
\* consecutive ones are equal the repeat guard never fires: each reply has
\* its callback before the next request, and the walk returns only when a
\* send or a receive fails.
C19_AsStated ==
  NoRepeatInSubtree =>
    /\ pc = "done" => RoundFailed
    /\ pc = "walk_send" =>
         /\ Len(wk.cbs) = Len(hist)
         /\ \A i \in 1..Len(hist) : wk.cbs[i].oid = ReplyOid(hist[i])

\* replies .1.1, .1.2, .1.1 under the root .1: the third reply has the OID
\* of the first, the callback has been called for each of the three and the
\* walk goes on
C19_Witness ==
  /\ pc = "walk_send" /\ NoRepeatInSubtree
  /\ wk.oid.mem = OidRoot /\ Len(hist) = 3
  /\ ReplyOid(hist[1]) = OidA /\ ReplyOid(hist[2]) = OidB
  /\ ReplyOid(hist[3]) = OidA
  /\ Len(wk.cbs) = 3 /\ wk.cbs[3].oid = OidA
  /\ wk.last_oid = OidA

---------------------------------------------------------------------------
(* Properties of the get *)

\* _prSideChannelSNMPGet has returned after receiving a whole get reply
\* with status ok and a payload "oid\0value"
GetReplied ==
  /\ op = "get" /\ pc = "done" /\ w.ret = 0 /\ r.ret = 0
  /\ Len(r.buffer) >= 4
  /\ r.buffer[1] = PR_SC_CMD_SNMP_GET /\ r.buffer[2] = PR_SC_STATUS_OK
  /\ r.buffer[3] * 256 + r.buffer[4] = Len(r.buffer) - 4
  /\ \E i \in 5..Len(r.buffer) : r.buffer[i] = 0

\* the value of the reply: what follows the first NUL of its payload
GetReplyValue ==
  LET k == CHOOSE i \in 5..Len(r.buffer) :
             r.buffer[i] = 0 /\ \A j \in 5..(i - 1) : r.buffer[j] # 0
  IN  SubSeq(r.buffer, k + 1, Len(r.buffer))

\* the caller's buffer as the call leaves it when it copies nothing: the
\* NUL stored on entry, then the bytes the caller had there
GetBufferEmpty == <<0>> \o Fill(Len(gt.data.mem) - 1, 170)

\* C18: for a matching get reply with status ok and payload "oid\0value",
\* the value having v bytes: when v + 1 is at most the caller's capacity the
\* caller's buffer holds exactly the v value bytes followed by a NUL (no
\* byte of the OID), *datalen is v and ok is returned; otherwise too-big is
\* returned, no value byte is copied and *datalen is unchanged.
C18_Value ==
  GetReplied =>
    LET v == Len(GetReplyValue)
        capacity == Len(gt.data.mem)
    IN  IF v + 1 <= capacity
        THEN /\ ret = PR_SC_STATUS_OK
             /\ gt.datalen.val = v
             /\ gt.data.mem = GetReplyValue \o <<0>>
                                \o Fill(capacity - v - 1, 170)
        ELSE /\ ret = PR_SC_STATUS_TOO_BIG
             /\ gt.datalen.val = capacity
             /\ gt.data.mem = GetBufferEmpty

\* a value of two bytes has been copied into a buffer of three
C18_Witness ==
  /\ GetReplied /\ ret = PR_SC_STATUS_OK
  /\ GetReplyValue = ValueBytes(2)
  /\ gt.data.mem = ValueBytes(2) \o <<0>> /\ gt.datalen.val = 2

---------------------------------------------------------------------------
(* Properties of the value length *)

\* _prSideChannelSNMPGet has received a whole get reply with status ok,
\* whatever its payload, and has ended
GetRepliedAny ==
  /\ op = "get" /\ pc \in {"done", "crashed"} /\ w.ret = 0 /\ r.ret = 0
  /\ Len(r.buffer) >= 4
  /\ r.buffer[1] = PR_SC_CMD_SNMP_GET /\ r.buffer[2] = PR_SC_STATUS_OK
  /\ r.buffer[3] * 256 + r.buffer[4] = Len(r.buffer) - 4

\* C20 as stated: for every matching reply with status ok, whatever its
\* payload, the value length computed by _prSideChannelSNMPGet and by
\* _prSideChannelSNMPWalk is never negative and the value bytes lie inside
\* the received payload; _prSideChannelSNMPGet never reports a *datalen
\* below 0.
C20_AsStated ==
  /\ GetRepliedAny =>
       /\ pc = "done"
       /\ gt.real_datalen >= 0
       /\ gt.real_oidlen + gt.real_datalen <= Len(Payload(r.buffer))
       /\ gt.datalen.val >= 0
  /\ op = "walk" =>
       \A i \in 1..Len(wk.cbs) :
          /\ wk.cbs[i].datalen >= 0
          /\ Len(wk.cbs[i].oid) + 1 + wk.cbs[i].datalen
               <= Len(Payload(hist[i]))

\* _prSideChannelSNMPGet has returned ok with *datalen below 0 after an ok
\* reply without payload
C20_Witness ==
  /\ GetRepliedAny /\ pc = "done" /\ ret = PR_SC_STATUS_OK
  /\ Payload(r.buffer) = <<>>
  /\ gt.real_datalen < 0 /\ gt.datalen.val = gt.real_datalen

---------------------------------------------------------------------------
(* Properties of a read that holds more than one frame *)

\* the data length the first frame of the bytes read declares
FirstDeclared == r.buffer[3] * 256 + r.buffer[4]

\* one read() of _prSideChannelRead has delivered a whole frame followed by
\* a whole second frame
TwoInOneRead ==
  /\ op = "scr" /\ pc \in {"scr_decode", "done"}
  /\ r.bytes >= 4 /\ r.bytes = Len(r.buffer)
  /\ Len(r.buffer) = 4 + FirstDeclared + Len(SecondFrame)
  /\ SubSeq(r.buffer, 5 + FirstDeclared, Len(r.buffer)) = SecondFrame

\* C21: a call of _prSideChannelRead takes everything one read() delivers
\* and decodes the first frame only. After a read() nothing is left on the
\* descriptor; when the read() held two frames the call returns the command,
\* status and data of the first one (or too-big when its data does not fit),
\* no byte of the second frame reaches the caller, and nothing of it is left
\* for a later call.
C21_FirstFrameOnly ==
  /\ pc = "scr_decode" => (inq = <<>> /\ r.bytes = Len(r.buffer))
  /\ (pc = "done" /\ op = "scr" /\ nsys.read >= 1) => inq = <<>>
  /\ (TwoInOneRead /\ pc = "done") =>
       /\ ret = 0 /\ inq = <<>>
       /\ r.command = r.buffer[1]
       /\ r.command # SecondFrame[1]
       /\ r.status \in {r.buffer[2], PR_SC_STATUS_TOO_BIG}
       /\ \A i \in 1..Len(r.data.mem) : r.data.mem[i] # SecondFrame[5]
       /\ r.status = r.buffer[2] =>
            /\ r.datalen.val = FirstDeclared
            /\ SubSeq(r.data.mem, 1, FirstDeclared)
                 = SubSeq(r.buffer, 5, 4 + FirstDeclared)

\* a call has returned the one data byte of the first of two frames read
\* at once, and the descriptor is empty
C21_Witness ==
  /\ TwoInOneRead /\ pc = "done" /\ ret = 0 /\ inq = <<>>
  /\ FirstDeclared = 1
  /\ r.command = PR_SC_CMD_SOFT_RESET /\ r.status = PR_SC_STATUS_OK
  /\ r.datalen.val = 1 /\ r.data.mem[1] = 65

=============================================================================
